---- MODULE Spec2Model ----
(***************************************************************************)
(* go-safe-backup: the capacity-aware backup sessions.                     *)
(*                                                                         *)
(* One session per behaviour, local (LocalBackupSession) or remote         *)
(* (S3BackupSession).  Caller goroutines (savers, waiters, a closer) and   *)
(* the background goroutines the session starts (cleanup passes, uploads,  *)
(* the helper goroutine of WaitForCompletion) interleave at the grain of   *)
(* the atomic operations of the source: atomic.AddInt64, atomic.Bool       *)
(* Load/Store, sync.Mutex Lock/Unlock, sync.WaitGroup Add/Done/Wait,       *)
(* channel close and select.                                               *)
(***************************************************************************)
EXTENDS Integers, Sequences, FiniteSets, TLC

----------------------------------------------------------------------------
(* Bounds of the model *)

\* caller goroutines that call Save
NumSavers == 2
\* bytes the callers save between two resets of the accumulated size
MaxAccumulated == 3
\* background goroutines alive at once
MaxTasks == 2
\* caller goroutines that call WaitForCompletion
NumWaiters == 1

Savers == 1..NumSavers
Waiters == 1..NumWaiters

\* file sizes (bytes) of the sources handed to Save
FileSizes == {1, 2}
\* free space (bytes) the capacity probe may report
FreeValues == {1, 2}
\* total space (bytes) of the destination volume
TotalValues == {6}

Nil == "nil"

----------------------------------------------------------------------------
(* Configuration inputs *)

\* uint64 CheckInterval, kept as bit 63 (hi) and the low 63 bits (lo)
U64(hi, lo) == [hi |-> hi, lo |-> lo]
DefaultCheckInterval == 1073741824

CheckIntervals == {U64(0, 0), U64(0, 2), U64(1, 0)}
RootDirs == {"", "/backup"}
Thresholds == {0, 2}
Targets == {2, 4}
\* CleaningConfig.MaxUsagePercent, a *float64: <<>> is the nil pointer
MaxUsagePercents == {<<>>, <<80>>}

\* every combination of the fields, the caller's MaxUsagePercent being tried
\* with the default CheckInterval only
LocalConfigs ==
    {c \in [RootDir : RootDirs, FreeSpaceThreshold : Thresholds,
            TargetFreeSpace : Targets, CheckInterval : CheckIntervals,
            MaxUsagePercent : MaxUsagePercents] :
        c.MaxUsagePercent = <<>> \/ c.CheckInterval = U64(0, 0)}

Regions == {"", "us-east-1"}
Buckets == {"", "bucket"}
ACLs == {"", "private", "public-read", "bogus"}

S3Configs == [Region : Regions, Bucket : Buckets, ACL : ACLs]

ValidACLs ==
    {"private", "public-read", "public-read-write", "authenticated-read",
     "aws-exec-read", "bucket-owner-read", "bucket-owner-full-control", ""}

\* mutation: the comparison of the target with the threshold is left out
validateLocalConfigLoose(c) ==
    IF c.RootDir = "" THEN "ErrInvalidConfig"
    ELSE IF c.FreeSpaceThreshold <= 0 THEN "ErrInvalidConfig"
    ELSE IF c.TargetFreeSpace <= 0 THEN "ErrInvalidConfig"
    ELSE Nil

\* the S3 configurations handed to validateS3Config alone: every canned ACL,
\* two names that are none, and the credentials and the endpoint it looks at
KnownACLs ==
    {"", "private", "public-read", "public-read-write", "authenticated-read",
     "aws-exec-read", "bucket-owner-read", "bucket-owner-full-control"}
AllACLs == KnownACLs \cup {"bogus", "Private"}
Credentials == {"", "key"}
Endpoints == {"", "http://minio:9000"}
S3ValidationInputs ==
    [Region : Regions, Bucket : Buckets, ACL : AllACLs,
     AccessKeyID : Credentials, SecretAccessKey : Credentials,
     Endpoint : Endpoints]

\* validateLocalConfig: Nil when the configuration is accepted
validateLocalConfig(c) ==
    IF c.RootDir = "" THEN "ErrInvalidConfig"
    ELSE IF c.FreeSpaceThreshold <= 0 THEN "ErrInvalidConfig"
    ELSE IF c.TargetFreeSpace <= 0 THEN "ErrInvalidConfig"
    ELSE IF c.TargetFreeSpace <= c.FreeSpaceThreshold THEN "ErrInvalidConfig"
    ELSE Nil

\* mutation: without an endpoint the credentials are required
validateS3ConfigStrict(c) ==
    IF c.Region = "" THEN "ErrInvalidConfig"
    ELSE IF c.Bucket = "" THEN "ErrInvalidConfig"
    ELSE IF c.Endpoint = "" /\ (c.AccessKeyID = "" \/ c.SecretAccessKey = "")
        THEN "ErrInvalidConfig"
    ELSE IF c.ACL \notin ValidACLs THEN "ErrInvalidConfig"
    ELSE Nil

\* validateS3Config: Nil when the configuration is accepted
validateS3Config(c) ==
    IF c.Region = "" THEN "ErrInvalidConfig"
    ELSE IF c.Bucket = "" THEN "ErrInvalidConfig"
    ELSE IF c.ACL \notin ValidACLs THEN "ErrInvalidConfig"
    ELSE Nil

\* mutation: a CheckInterval of 0 is kept
WithoutDefaults(c) == c

\* the default CheckInterval of NewLocalBackupSession
WithDefaults(c) ==
    IF c.CheckInterval = U64(0, 0)
    THEN [c EXCEPT !.CheckInterval = U64(0, DefaultCheckInterval)]
    ELSE c

\* the default ACL of NewS3BackupSession
WithDefaultACL(c) ==
    IF c.ACL = "" THEN [c EXCEPT !.ACL = "private"] ELSE c

\* int64(u) of a uint64: the same 64 bits, bit 63 read as the sign;
\* the value is mag - 2^63 when neg and mag otherwise
Int64OfUint64(u) == [neg |-> u.hi = 1, mag |-> u.lo]

\* mutation: the comparison is made on the unsigned value
GeUint64(n, v) == IF v.neg THEN FALSE ELSE n >= v.mag

\* n >= v, for an int64 n in 0..2^63-1 and an int64 v as Int64OfUint64 gives it
GeInt64(n, v) == IF v.neg THEN TRUE ELSE n >= v.mag

----------------------------------------------------------------------------
VARIABLES
    kind,             \* "local" or "remote": which session type is built
    config,           \* the configuration handed to the constructor
    ctor,             \* the constructor: [pc, err, free], free its probe's answer
    accumulatedSize,  \* LocalBackupSession.accumulatedSize
    isCleaningActive, \* LocalBackupSession.isCleaningActive
    cleaningMutex,    \* LocalBackupSession.cleaningMutex: 0 or the holder
    cleaningDone,     \* LocalBackupSession.cleaningDone: "open" or "closed"
    wg,               \* the session's sync.WaitGroup counter
    task,             \* the background goroutines that have not ended
    saver,            \* per saver: [pc, size, input, result]
    waiter,           \* per waiter: [pc, ctx, helper, result] and, as history
                      \* of the call, [expiredAtCall, hadWork]
    panicked,         \* a goroutine has panicked: the process is gone
    sinceReset        \* bytes added by Saves since the last reset (history)

sessionVars == <<accumulatedSize, isCleaningActive, cleaningMutex, cleaningDone, wg>>
envVars == <<kind, config>>
taskVars == <<task>>
vars == <<kind, config, ctor, accumulatedSize, isCleaningActive,
          cleaningMutex, cleaningDone, wg, task, saver, waiter, panicked,
          sinceReset>>

IdleSaver == [pc |-> "idle", size |-> 0, input |-> Nil, result |-> Nil]
IdleWaiter ==
    [pc |-> "idle", ctx |-> Nil, helper |-> "none", result |-> Nil,
     expiredAtCall |-> FALSE, hadWork |-> FALSE]

Init ==
    /\ kind \in {"local", "remote"}
    /\ config \in (IF kind = "local" THEN LocalConfigs ELSE S3Configs)
    /\ ctor = [pc |-> "start", err |-> Nil, free |-> <<>>]
    /\ accumulatedSize = 0
    /\ isCleaningActive = FALSE
    /\ cleaningMutex = 0
    /\ cleaningDone = "open"
    /\ wg = 0
    /\ task = <<>>
    /\ saver = [s \in Savers |-> IdleSaver]
    /\ waiter = [w \in Waiters |-> IdleWaiter]
    /\ panicked = FALSE
    /\ sinceReset = 0

\* the process is alive: no goroutine has panicked
Running == ~panicked
\* the constructor has returned a session to the caller
Ready == ctor.pc = "ready" /\ Running

----------------------------------------------------------------------------
(* Primitives *)

\* mutation: the size is stored, not added
StoreInsteadOfAdd(cur, delta) == delta
\* atomic.AddInt64: the new value
AtomicAddInt64(cur, delta) == cur + delta
\* mutation: the goroutine is started without being registered
WaitGroupAddMissing(n) == n
\* mutation: a goroutine is registered with two units
WaitGroupAddTwo(n) == n + 2
\* sync.WaitGroup.Add(1)
WaitGroupAdd(n) == n + 1
\* mutation: a unit is released twice
WaitGroupDoneTwice(n) == n - 2
\* sync.WaitGroup.Done()
WaitGroupDone(n) == n - 1
\* mutation: Wait does not wait
WaitReturnsAtOnce(n) == TRUE
\* sync.WaitGroup.Wait() returns
WaitGroupWaitReturns(n) == n = 0
\* mutation: free space equal to the threshold counts as low
BelowOrAtThreshold(free, c) == free <= c.FreeSpaceThreshold
\* the capacity decision: diskInfo.Free < config.FreeSpaceThreshold
BelowThreshold(free, c) == free < c.FreeSpaceThreshold

TaskIds == 1..MaxTasks

\* go func() { defer wg.Done(); ... }(): one more background goroutine;
\* history: awaitedBy, the WaitForCompletion calls begun while it runs, and
\* untouched, no Save has added bytes since this pass reset the size
Spawn(origin) ==
    LET id == CHOOSE i \in TaskIds \ DOMAIN task :
                  \A j \in TaskIds \ DOMAIN task : i <= j
    IN  id :> [origin |-> origin, pc |-> "spawned", outcome |-> Nil,
               arg |-> <<>>, awaitedBy |-> {}, untouched |-> FALSE]

\* the goroutine t has ended
Ended(t) == [u \in DOMAIN task \ {t} |-> task[u]]

----------------------------------------------------------------------------
(* NewLocalBackupSession / NewS3BackupSession *)

\* NewLocalBackupSession up to its go statement: validation, the default
\* CheckInterval, MkdirAll, the eager capacity check and the dispatch of the
\* bootstrap cleanup pass
ConstructLocal ==
    /\ kind = "local"
    /\ ctor.pc = "start"
    /\ IF validateLocalConfig(config) # Nil
       THEN /\ ctor' = [ctor EXCEPT !.pc = "error", !.err = validateLocalConfig(config)]
            /\ UNCHANGED <<config, isCleaningActive, wg, taskVars>>
       ELSE \E mkdirOK \in BOOLEAN, probeOK \in BOOLEAN, free \in FreeValues :
            /\ config' = WithDefaults(config)
            /\ IF ~mkdirOK
               THEN /\ ctor' = [ctor EXCEPT !.pc = "error", !.err = "ErrMkdir"]
                    /\ UNCHANGED <<isCleaningActive, wg, taskVars>>
               ELSE IF ~probeOK
               THEN /\ ctor' = [ctor EXCEPT !.pc = "error", !.err = "ErrDiskUsage"]
                    /\ UNCHANGED <<isCleaningActive, wg, taskVars>>
               ELSE /\ ctor' = [ctor EXCEPT !.pc = "returning", !.free = <<free>>]
                    /\ IF BelowThreshold(free, config)
                       THEN /\ isCleaningActive' = TRUE
                            /\ wg' = WaitGroupAdd(wg)
                            /\ task' = task @@ Spawn("bootstrap")
                       ELSE UNCHANGED <<isCleaningActive, wg, taskVars>>
    /\ UNCHANGED <<kind, accumulatedSize, cleaningMutex, cleaningDone, saver,
                   waiter, panicked, sinceReset>>

\* NewS3BackupSession: validation, the default ACL, the AWS session and the
\* HeadBucket probe of the bucket
ConstructRemote ==
    /\ kind = "remote"
    /\ ctor.pc = "start"
    /\ IF validateS3Config(config) # Nil
       THEN /\ ctor' = [ctor EXCEPT !.pc = "error", !.err = validateS3Config(config)]
            /\ UNCHANGED config
       ELSE \E sessionOK \in BOOLEAN, bucketOK \in BOOLEAN :
            /\ config' = WithDefaultACL(config)
            /\ ctor' = IF ~sessionOK
                       THEN [ctor EXCEPT !.pc = "error", !.err = "ErrAWSSession"]
                       ELSE IF ~bucketOK
                       THEN [ctor EXCEPT !.pc = "error", !.err = "ErrBucketAccess"]
                       ELSE [ctor EXCEPT !.pc = "returning"]
    /\ UNCHANGED <<kind, sessionVars, taskVars, saver, waiter,
                   panicked, sinceReset>>

\* return session, nil
ConstructReturn ==
    /\ ctor.pc = "returning"
    /\ ctor' = [ctor EXCEPT !.pc = "ready", !.free = <<>>]
    /\ UNCHANGED <<envVars, sessionVars, taskVars, saver, waiter,
                   panicked, sinceReset>>

----------------------------------------------------------------------------
(* performCleaning, run by the goroutine of a cleanup pass *)

IsCleanup(t) == task[t].origin \in {"bootstrap", "save"}

\* the target used space of a pass, clamped at zero
TargetUsedSpace(total, c) ==
    IF c.TargetFreeSpace < total THEN total - c.TargetFreeSpace ELSE 0

\* targetUsagePercent, kept exact as the fraction num/den; the float64
\* quotient 0/0 of a volume of total size 0 is NaN, kept as num = den = 0
TargetUsagePercent(total, c) ==
    [num |-> TargetUsedSpace(total, c) * 100, den |-> total]

\* mutation: the computed target replaces the caller's value
EngineMaxUsageComputed(total, c) == <<TargetUsagePercent(total, c)>>

\* the MaxUsagePercent of the pass's copy of the cleaning configuration
EngineMaxUsage(total, c) ==
    IF c.MaxUsagePercent = <<>>
    THEN <<TargetUsagePercent(total, c)>>
    ELSE <<[num |-> c.MaxUsagePercent[1], den |-> 1]>>

\* the pass's own probe, answering with a total size out of totals, and on
\* success the call of cleaner.CleanBackup
PassProbeOf(t, totals) ==
    /\ Running
    /\ t \in DOMAIN task
    /\ IsCleanup(t)
    /\ task[t].pc = "spawned"
    /\ \E probeOK \in BOOLEAN, total \in totals :
        task' = IF probeOK
                THEN [task EXCEPT ![t].pc = "engine",
                                  ![t].arg = EngineMaxUsage(total, config)]
                ELSE [task EXCEPT ![t].pc = "deferIdle",
                                  ![t].outcome = "probeError"]
    /\ UNCHANGED <<envVars, ctor, sessionVars, saver, waiter, panicked, sinceReset>>

PassProbe(t) == PassProbeOf(t, TotalValues)

\* cleaner.CleanBackup returns, with a report or with an error
PassEngineReturns(t) ==
    /\ Running
    /\ t \in DOMAIN task
    /\ task[t].pc = "engine"
    /\ \E engineOK \in BOOLEAN :
        task' = [task EXCEPT ![t].pc = "deferIdle",
                             ![t].arg = <<>>,
                             ![t].outcome = IF engineOK THEN "cleaned"
                                            ELSE "engineError"]
    /\ UNCHANGED <<envVars, ctor, sessionVars, saver, waiter, panicked, sinceReset>>

\* mutation: only a pass whose engine succeeded sets the state back to Idle
PassStoreIdleOnSuccess(t) ==
    /\ Running
    /\ t \in DOMAIN task
    /\ task[t].pc = "deferIdle"
    /\ isCleaningActive' = IF task[t].outcome = "cleaned"
                           THEN FALSE
                           ELSE isCleaningActive
    /\ task' = [task EXCEPT ![t].pc = "deferReset"]
    /\ UNCHANGED <<envVars, ctor, accumulatedSize, cleaningMutex, cleaningDone,
                   wg, saver, waiter, panicked, sinceReset>>

\* mutation: the pass sets Idle and goes straight to its wg.Done
PassStoreIdleThenDone(t) ==
    /\ Running
    /\ t \in DOMAIN task
    /\ task[t].pc = "deferIdle"
    /\ isCleaningActive' = FALSE
    /\ task' = [task EXCEPT ![t].pc = "deferDone"]
    /\ UNCHANGED <<envVars, ctor, accumulatedSize, cleaningMutex, cleaningDone,
                   wg, saver, waiter, panicked, sinceReset>>

\* deferred: s.isCleaningActive.Store(false)
PassStoreIdle(t) ==
    /\ Running
    /\ t \in DOMAIN task
    /\ task[t].pc = "deferIdle"
    /\ isCleaningActive' = FALSE
    /\ task' = [task EXCEPT ![t].pc = "deferReset"]
    /\ UNCHANGED <<envVars, ctor, accumulatedSize, cleaningMutex, cleaningDone,
                   wg, saver, waiter, panicked, sinceReset>>

\* mutation: the pass ends without resetting the accumulated size
PassResetSkipped(t) ==
    /\ Running
    /\ t \in DOMAIN task
    /\ task[t].pc = "deferReset"
    /\ task' = [task EXCEPT ![t].pc = "deferDone", ![t].untouched = TRUE]
    /\ UNCHANGED <<envVars, ctor, sessionVars, saver, waiter, panicked,
                   sinceReset>>

\* deferred: atomic.StoreInt64(&s.accumulatedSize, 0)
PassReset(t) ==
    /\ Running
    /\ t \in DOMAIN task
    /\ task[t].pc = "deferReset"
    /\ accumulatedSize' = 0
    /\ sinceReset' = 0
    /\ task' = [task EXCEPT ![t].pc = "deferDone", ![t].untouched = TRUE]
    /\ UNCHANGED <<envVars, ctor, isCleaningActive, cleaningMutex, cleaningDone,
                   wg, saver, waiter, panicked>>

\* mutation: a goroutine that failed ends without releasing its unit
TaskDoneOnSuccess(t) ==
    /\ Running
    /\ t \in DOMAIN task
    /\ task[t].pc = "deferDone"
    /\ wg' = IF task[t].outcome \in {"openError", "putError", "engineError",
                                      "probeError"}
             THEN wg
             ELSE WaitGroupDone(wg)
    /\ task' = Ended(t)
    /\ UNCHANGED <<envVars, ctor, accumulatedSize, isCleaningActive,
                   cleaningMutex, cleaningDone, saver, waiter, panicked, sinceReset>>

\* the goroutine's deferred wg.Done(), of a cleanup pass or of an upload,
\* and the end of the goroutine
TaskDone(t) ==
    /\ Running
    /\ t \in DOMAIN task
    /\ task[t].pc = "deferDone"
    /\ wg' = WaitGroupDone(wg)
    /\ task' = Ended(t)
    /\ UNCHANGED <<envVars, ctor, accumulatedSize, isCleaningActive,
                   cleaningMutex, cleaningDone, saver, waiter, panicked, sinceReset>>

\* uploadFile, run by the goroutine of an upload: os.Open and PutObject
UploadRun(t) ==
    /\ Running
    /\ t \in DOMAIN task
    /\ task[t].origin = "upload"
    /\ task[t].pc = "spawned"
    /\ \E r \in {"uploaded", "openError", "putError"} :
        task' = [task EXCEPT ![t].pc = "deferDone", ![t].outcome = r]
    /\ UNCHANGED <<envVars, ctor, sessionVars, saver, waiter, panicked, sinceReset>>

----------------------------------------------------------------------------
(* Save *)

\* what the file system answers to one Save call
IoOutcomes == {"ok", "statError", "notRegular", "mkdirError", "copyError"}
Paths == {"", "file"}

\* mutation: the error of the copy is dropped
LocalSaveErrorCopyDropped(localFilePath, relativePath, io) ==
    IF localFilePath = "" \/ relativePath = "" THEN "ErrInvalidConfig"
    ELSE IF io = "statError" THEN "ErrStat"
    ELSE IF io = "notRegular" THEN "ErrInvalidConfig"
    ELSE IF io = "mkdirError" THEN "ErrMkdir"
    ELSE Nil

\* mutation: the paths are not tested for emptiness
LocalSaveErrorUnvalidated(localFilePath, relativePath, io) ==
    IF io = "statError" THEN "ErrStat"
    ELSE IF io = "notRegular" THEN "ErrInvalidConfig"
    ELSE IF io = "mkdirError" THEN "ErrMkdir"
    ELSE IF io = "copyError" THEN "ErrBackupFailed"
    ELSE Nil

\* the error of the synchronous part of the local Save, Nil when the copy succeeded
LocalSaveError(localFilePath, relativePath, io) ==
    IF localFilePath = "" \/ relativePath = "" THEN "ErrInvalidConfig"
    ELSE IF io = "statError" THEN "ErrStat"
    ELSE IF io = "notRegular" THEN "ErrInvalidConfig"
    ELSE IF io = "mkdirError" THEN "ErrMkdir"
    ELSE IF io = "copyError" THEN "ErrBackupFailed"
    ELSE Nil

\* the error of the synchronous part of the remote Save, Nil when it goes on
\* to dispatch the upload
RemoteSaveError(localFilePath, relativePath, io) ==
    IF localFilePath = "" \/ relativePath = "" THEN "ErrInvalidConfig"
    ELSE IF io = "statError" THEN "ErrStat"
    ELSE IF io = "notRegular" THEN "ErrInvalidConfig"
    ELSE Nil

SaveError(localFilePath, relativePath, io) ==
    IF kind = "local"
    THEN LocalSaveError(localFilePath, relativePath, io)
    ELSE RemoteSaveError(localFilePath, relativePath, io)

\* the call's input, for the record: "empty" paths, a source that is a
\* regular file whose copy succeeds ("valid"), or a failing file operation
InputClass(localFilePath, relativePath, io) ==
    IF localFilePath = "" \/ relativePath = "" THEN "empty"
    ELSE IF io = "ok" THEN "valid"
    ELSE "failing"

\* return err / return nil
Return(s, result) ==
    [saver EXCEPT ![s].pc = "returned", ![s].size = 0, ![s].result = result]

\* the callers' load is bounded: the bytes saved since the last reset and
\* the goroutines a further Save may add to those alive
InCall == {s \in Savers : saver[s].pc \notin {"idle", "returned"}}
RECURSIVE SumSizes(_)
SumSizes(S) ==
    IF S = {} THEN 0
    ELSE LET s == CHOOSE x \in S : TRUE
         IN  saver[s].size + SumSizes(S \ {s})
CallersMaySave(size) ==
    /\ Cardinality(DOMAIN task) + Cardinality(InCall) < MaxTasks
    /\ accumulatedSize + SumSizes(Savers) + size <= MaxAccumulated

\* Save from its entry to the end of the copy (local) or of the stat (remote)
SaveBegin(s) ==
    /\ Ready
    /\ saver[s].pc = "idle"
    /\ \E localFilePath \in Paths, relativePath \in Paths, io \in IoOutcomes,
          size \in FileSizes :
        /\ CallersMaySave(size)
        /\ saver' =
              LET err == SaveError(localFilePath, relativePath, io)
                  input == InputClass(localFilePath, relativePath, io)
              IN  IF err # Nil
                  THEN [saver EXCEPT ![s] = [pc |-> "returned", size |-> 0,
                                              input |-> input, result |-> err]]
                  ELSE [saver EXCEPT ![s] = [pc |-> "add", size |-> size,
                                              input |-> input, result |-> Nil]]
    /\ UNCHANGED <<envVars, ctor, sessionVars, taskVars, waiter,
                   panicked, sinceReset>>

\* mutation: the comparison is strict
IntervalExceeded(newAccumulatedSize, c) ==
    LET v == Int64OfUint64(c.CheckInterval)
    IN  IF v.neg THEN TRUE ELSE newAccumulatedSize > v.mag

\* newAccumulatedSize >= int64(s.config.CheckInterval)
IntervalReached(newAccumulatedSize, c) ==
    GeInt64(newAccumulatedSize, Int64OfUint64(c.CheckInterval))

\* atomic.AddInt64(&s.accumulatedSize, fileSize) and the interval comparison
SaveAdd(s) ==
    /\ Running
    /\ kind = "local"
    /\ saver[s].pc = "add"
    /\ accumulatedSize' = AtomicAddInt64(accumulatedSize, saver[s].size)
    /\ sinceReset' = sinceReset + saver[s].size
    /\ saver' = IF IntervalReached(accumulatedSize', config)
                THEN [saver EXCEPT ![s].pc = "fast", ![s].size = 0]
                ELSE Return(s, "ok")
    /\ task' = [t \in DOMAIN task |-> [task[t] EXCEPT !.untouched = FALSE]]
    /\ UNCHANGED <<envVars, ctor, isCleaningActive, cleaningMutex, cleaningDone,
                   wg, waiter, panicked>>

\* the first check of the double check: s.isCleaningActive.Load()
FastCheckActive == isCleaningActive
\* mutation: no second check under the lock
RecheckSkipped == FALSE
\* the second check, made under the lock: s.isCleaningActive.Load()
RecheckActive == isCleaningActive

\* mutation: the snapshot is taken in the fast path, before the lock
CheckFastProbes(s) ==
    /\ Running
    /\ saver[s].pc = "fast"
    /\ saver' = IF FastCheckActive
                THEN Return(s, "ok")
                ELSE [saver EXCEPT ![s].pc = "probe"]
    /\ UNCHANGED <<envVars, ctor, sessionVars, taskVars, waiter,
                   panicked, sinceReset>>

\* checkAndCleanIfNeeded, fast path: if s.isCleaningActive.Load() { return }
CheckFast(s) ==
    /\ Running
    /\ saver[s].pc = "fast"
    /\ saver' = IF FastCheckActive
                THEN Return(s, "ok")
                ELSE [saver EXCEPT ![s].pc = "lock"]
    /\ UNCHANGED <<envVars, ctor, sessionVars, taskVars, waiter,
                   panicked, sinceReset>>

\* mutation: a cleanup pass keeps the lock for as long as the state is Active
LockHeldByPass(m) == m = 0 /\ ~isCleaningActive

\* s.cleaningMutex.Lock() is possible
LockFree(m) == m = 0

\* mutation: the slow path goes on without taking the lock
CheckLockUnlocked(s) ==
    /\ Running
    /\ saver[s].pc = "lock"
    /\ saver' = IF RecheckActive
                THEN Return(s, "ok")
                ELSE [saver EXCEPT ![s].pc = "probe"]
    /\ UNCHANGED <<envVars, ctor, sessionVars, taskVars, waiter, panicked,
                   sinceReset>>

\* s.cleaningMutex.Lock() and the re-check under the lock; on Active the
\* deferred Unlock and the return
CheckLock(s) ==
    /\ Running
    /\ saver[s].pc = "lock"
    /\ LockFree(cleaningMutex)
    /\ IF RecheckActive
       THEN /\ saver' = Return(s, "ok")
            /\ UNCHANGED cleaningMutex
       ELSE /\ saver' = [saver EXCEPT ![s].pc = "probe"]
            /\ cleaningMutex' = s
    /\ UNCHANGED <<envVars, ctor, accumulatedSize, isCleaningActive,
                   cleaningDone, wg, taskVars, waiter, panicked,
                   sinceReset>>

\* mutation: the probe's error is returned to the caller of Save
ProbeFailurePropagated == "ErrDiskUsage"
\* what Save returns after a capacity check whose probe failed
ProbeFailureResult == "ok"

\* mutation: a failed probe counts as a snapshot with no free space
StartsPassOnError(probeOK, free, c) == ~probeOK \/ BelowThreshold(free, c)
\* the decision of the slow path: err == nil and diskInfo.Free below the threshold
StartsPass(probeOK, free, c) == probeOK /\ BelowThreshold(free, c)

\* mutation: with enough space the check resets the accumulated size
CheckProbeResets(s) ==
    /\ Running
    /\ saver[s].pc = "probe"
    /\ \E probeOK \in BOOLEAN, free \in FreeValues :
        IF StartsPass(probeOK, free, config)
        THEN /\ saver' = [saver EXCEPT ![s].pc = "store"]
             /\ UNCHANGED <<cleaningMutex, accumulatedSize, sinceReset>>
        ELSE IF ~probeOK
        THEN /\ saver' = [saver EXCEPT ![s].pc = "abandon"]
             /\ UNCHANGED <<cleaningMutex, accumulatedSize, sinceReset>>
        ELSE /\ cleaningMutex' = 0
             /\ accumulatedSize' = 0
             /\ sinceReset' = 0
             /\ saver' = Return(s, "ok")
    /\ UNCHANGED <<envVars, ctor, isCleaningActive,
                   cleaningDone, wg, taskVars, waiter, panicked>>

\* GetDiskUsage under the lock and the threshold decision; with enough
\* space, the deferred Unlock and the return
CheckProbe(s) ==
    /\ Running
    /\ saver[s].pc = "probe"
    /\ \E probeOK \in BOOLEAN, free \in FreeValues :
        IF StartsPass(probeOK, free, config)
        THEN /\ saver' = [saver EXCEPT ![s].pc = "store"]
             /\ UNCHANGED cleaningMutex
        ELSE IF ~probeOK
        THEN /\ saver' = [saver EXCEPT ![s].pc = "abandon"]
             /\ UNCHANGED cleaningMutex
        ELSE /\ cleaningMutex' = 0
             /\ saver' = Return(s, "ok")
    /\ UNCHANGED <<envVars, ctor, accumulatedSize, isCleaningActive,
                   cleaningDone, wg, taskVars, waiter, panicked,
                   sinceReset>>

\* mutation: the check abandoned on a probe error returns with the lock held
CheckAbandonLocked(s) ==
    /\ Running
    /\ saver[s].pc = "abandon"
    /\ saver' = Return(s, ProbeFailureResult)
    /\ UNCHANGED <<envVars, ctor, sessionVars, taskVars, waiter, panicked,
                   sinceReset>>

\* the probe failed: return from checkAndCleanIfNeeded, the deferred Unlock,
\* and Save's return nil
CheckAbandon(s) ==
    /\ Running
    /\ saver[s].pc = "abandon"
    /\ cleaningMutex' = 0
    /\ saver' = Return(s, ProbeFailureResult)
    /\ UNCHANGED <<envVars, ctor, accumulatedSize, isCleaningActive,
                   cleaningDone, wg, taskVars, waiter, panicked,
                   sinceReset>>

\* mutation: the pass is dispatched without the state being set to Active
CheckStoreActiveSkipped(s) ==
    /\ Running
    /\ saver[s].pc = "store"
    /\ saver' = [saver EXCEPT ![s].pc = "dispatch"]
    /\ UNCHANGED <<envVars, ctor, sessionVars, taskVars, waiter, panicked,
                   sinceReset>>

\* s.isCleaningActive.Store(true)
CheckStoreActive(s) ==
    /\ Running
    /\ saver[s].pc = "store"
    /\ isCleaningActive' = TRUE
    /\ saver' = [saver EXCEPT ![s].pc = "dispatch"]
    /\ UNCHANGED <<envVars, ctor, accumulatedSize, cleaningMutex, cleaningDone,
                   wg, taskVars, waiter, panicked, sinceReset>>

\* mutation: the Save that dispatched a pass returns without unlocking
CheckDispatchHoldsLock(s) ==
    /\ Running
    /\ saver[s].pc = "dispatch"
    /\ wg' = WaitGroupAdd(wg)
    /\ task' = task @@ Spawn("save")
    /\ saver' = Return(s, "ok")
    /\ UNCHANGED <<envVars, ctor, accumulatedSize, isCleaningActive,
                   cleaningMutex, cleaningDone, waiter, panicked, sinceReset>>

\* s.wg.Add(1), the go statement, the deferred Unlock and Save's return nil
CheckDispatch(s) ==
    /\ Running
    /\ saver[s].pc = "dispatch"
    /\ wg' = WaitGroupAdd(wg)
    /\ task' = task @@ Spawn("save")
    /\ cleaningMutex' = 0
    /\ saver' = Return(s, "ok")
    /\ UNCHANGED <<envVars, ctor, accumulatedSize, isCleaningActive,
                   cleaningDone, waiter, panicked, sinceReset>>

\* mutation: the upload goroutine is started without being registered
RemoteDispatchUnregistered(s) ==
    /\ Running
    /\ kind = "remote"
    /\ saver[s].pc = "add"
    /\ task' = task @@ Spawn("upload")
    /\ saver' = Return(s, "ok")
    /\ UNCHANGED <<envVars, ctor, sessionVars, waiter, panicked, sinceReset>>

\* mutation: the remote Save adds the file's size before it dispatches
RemoteDispatchAccumulates(s) ==
    /\ Running
    /\ kind = "remote"
    /\ saver[s].pc = "add"
    /\ accumulatedSize' = AtomicAddInt64(accumulatedSize, saver[s].size)
    /\ wg' = WaitGroupAdd(wg)
    /\ task' = task @@ Spawn("upload")
    /\ saver' = Return(s, "ok")
    /\ UNCHANGED <<envVars, ctor, isCleaningActive, cleaningMutex,
                   cleaningDone, waiter, panicked, sinceReset>>

\* the remote Save after its validation: s.wg.Add(1), the go statement, return nil
RemoteDispatch(s) ==
    /\ Running
    /\ kind = "remote"
    /\ saver[s].pc = "add"
    /\ wg' = WaitGroupAdd(wg)
    /\ task' = task @@ Spawn("upload")
    /\ saver' = Return(s, "ok")
    /\ UNCHANGED <<envVars, ctor, accumulatedSize, isCleaningActive,
                   cleaningMutex, cleaningDone, waiter, panicked,
                   sinceReset>>

\* the caller has the result of Save and may call again
SaveReturned(s) ==
    /\ Running
    /\ saver[s].pc = "returned"
    /\ saver' = [saver EXCEPT ![s] = IdleSaver]
    /\ UNCHANGED <<envVars, ctor, sessionVars, taskVars, waiter,
                   panicked, sinceReset>>

----------------------------------------------------------------------------
(* WaitForCompletion *)

\* the contexts a caller passes: context.Background(), a context whose
\* deadline or cancellation is still ahead, and one already expired or cancelled
Contexts == {"background", "live", "expired"}

\* the call: make(chan struct{}) and the go statement of the helper
WaitCall(w) ==
    /\ Ready
    /\ waiter[w].pc = "idle"
    /\ \E ctx \in Contexts :
        waiter' = [waiter EXCEPT ![w] =
                      [pc |-> "select", ctx |-> ctx, helper |-> "waiting",
                       result |-> Nil, expiredAtCall |-> (ctx = "expired"),
                       hadWork |-> (DOMAIN task # {})]]
    /\ task' = [t \in DOMAIN task |->
                  [task[t] EXCEPT !.awaitedBy = task[t].awaitedBy \cup {w}]]
    /\ UNCHANGED <<envVars, ctor, sessionVars, saver, panicked,
                   sinceReset>>

\* mutation: the helper goroutine ends without closing the channel
HelperWithoutClose(w) ==
    /\ Running
    /\ waiter[w].helper = "waiting"
    /\ WaitGroupWaitReturns(wg)
    /\ waiter' = [waiter EXCEPT ![w].helper = "exited"]
    /\ UNCHANGED <<envVars, ctor, sessionVars, taskVars, saver,
                   panicked, sinceReset>>

\* the helper goroutine: s.wg.Wait() returns and close(done)
HelperDone(w) ==
    /\ Running
    /\ waiter[w].helper = "waiting"
    /\ WaitGroupWaitReturns(wg)
    /\ waiter' = [waiter EXCEPT ![w].helper = "closed"]
    /\ UNCHANGED <<envVars, ctor, sessionVars, taskVars, saver,
                   panicked, sinceReset>>

\* the deadline of the context passes, or its cancel function is called
ContextExpires(w) ==
    /\ Running
    /\ waiter[w].pc = "select"
    /\ waiter[w].ctx = "live"
    /\ waiter' = [waiter EXCEPT ![w].ctx = "expired"]
    /\ UNCHANGED <<envVars, ctor, sessionVars, taskVars, saver,
                   panicked, sinceReset>>

\* select: case <-ctx.Done() is ready
CtxDoneReady(w) == waiter[w].ctx = "expired"
\* select: case <-done is ready
DoneReady(w) == waiter[w].helper = "closed"

\* WaitForCompletion returns; the helper goroutine, which can reach nothing
\* but its own channel, is followed no further
WaitReturn(w, result) ==
    [waiter EXCEPT ![w].pc = "returned", ![w].ctx = Nil, ![w].helper = "none",
                   ![w].result = result]

\* mutation: the timeout cancels the background work
WaitTimeoutCancels(w) ==
    /\ Running
    /\ waiter[w].pc = "select"
    /\ CtxDoneReady(w)
    /\ waiter' = WaitReturn(w, "timeout")
    /\ task' = <<>>
    /\ wg' = 0
    /\ UNCHANGED <<envVars, ctor, accumulatedSize, isCleaningActive,
                   cleaningMutex, cleaningDone, saver, panicked, sinceReset>>

\* select takes case <-ctx.Done(): return the timeout error
WaitTimeout(w) ==
    /\ Running
    /\ waiter[w].pc = "select"
    /\ CtxDoneReady(w)
    /\ waiter' = WaitReturn(w, "timeout")
    /\ UNCHANGED <<envVars, ctor, sessionVars, taskVars, saver,
                   panicked, sinceReset>>

\* select takes case <-done: return nil
WaitOk(w) ==
    /\ Running
    /\ waiter[w].pc = "select"
    /\ DoneReady(w)
    /\ waiter' = WaitReturn(w, "ok")
    /\ UNCHANGED <<envVars, ctor, sessionVars, taskVars, saver,
                   panicked, sinceReset>>

\* the caller has the result of WaitForCompletion and may call again
WaitReturned(w) ==
    /\ Running
    /\ waiter[w].pc = "returned"
    /\ waiter' = [waiter EXCEPT ![w] = IdleWaiter]
    /\ task' = [t \in DOMAIN task |->
                  [task[t] EXCEPT !.awaitedBy = task[t].awaitedBy \ {w}]]
    /\ UNCHANGED <<envVars, ctor, sessionVars, saver, panicked,
                   sinceReset>>

----------------------------------------------------------------------------
(* Close *)

\* an unrecovered panic ends the process: every goroutine and the session
\* are gone
Panic ==
    /\ panicked' = TRUE
    /\ ctor' = [pc |-> "gone", err |-> Nil, free |-> <<>>]
    /\ accumulatedSize' = 0
    /\ isCleaningActive' = FALSE
    /\ cleaningMutex' = 0
    /\ cleaningDone' = "closed"
    /\ wg' = 0
    /\ task' = <<>>
    /\ saver' = [s \in Savers |-> IdleSaver]
    /\ waiter' = [w \in Waiters |-> IdleWaiter]
    /\ sinceReset' = 0
    /\ UNCHANGED envVars

\* LocalBackupSession.Close: close(s.cleaningDone), which panics on a closed
\* channel; S3BackupSession.Close: return nil
Close ==
    /\ Ready
    /\ IF kind = "local" /\ cleaningDone = "closed"
       THEN Panic
       ELSE /\ cleaningDone' = IF kind = "local" THEN "closed" ELSE cleaningDone
            /\ UNCHANGED <<envVars, ctor, accumulatedSize, isCleaningActive,
                           cleaningMutex, wg, taskVars, saver, waiter,
                           panicked, sinceReset>>

----------------------------------------------------------------------------
(* The program *)

SaverStep(s) ==
    \/ SaveBegin(s)
    \/ SaveAdd(s)
    \/ CheckFast(s)
    \/ CheckLock(s)
    \/ CheckProbe(s)
    \/ CheckAbandon(s)
    \/ CheckStoreActive(s)
    \/ CheckDispatch(s)
    \/ RemoteDispatch(s)
    \/ SaveReturned(s)

TaskStep(t) ==
    \/ PassProbe(t)
    \/ PassEngineReturns(t)
    \/ PassStoreIdle(t)
    \/ PassReset(t)
    \/ TaskDone(t)
    \/ UploadRun(t)

WaiterStep(w) ==
    \/ WaitCall(w)
    \/ HelperDone(w)
    \/ ContextExpires(w)
    \/ WaitTimeout(w)
    \/ WaitOk(w)
    \/ WaitReturned(w)

Next ==
    \/ ConstructLocal
    \/ ConstructRemote
    \/ ConstructReturn
    \/ Close
    \/ \E s \in Savers : SaverStep(s)
    \/ \E t \in TaskIds : TaskStep(t)
    \/ \E w \in Waiters : WaiterStep(w)

Spec == Init /\ [][Next]_vars

\* NewS3BackupSession alone, on every configuration of S3ValidationInputs
ValidateInit ==
    /\ kind = "remote"
    /\ config \in S3ValidationInputs
    /\ ctor = [pc |-> "start", err |-> Nil, free |-> <<>>]
    /\ accumulatedSize = 0
    /\ isCleaningActive = FALSE
    /\ cleaningMutex = 0
    /\ cleaningDone = "open"
    /\ wg = 0
    /\ task = <<>>
    /\ saver = [s \in Savers |-> IdleSaver]
    /\ waiter = [w \in Waiters |-> IdleWaiter]
    /\ panicked = FALSE
    /\ sinceReset = 0

ValidateNext ==
    \/ ConstructRemote
    \/ ConstructReturn

ValidateSpec == ValidateInit /\ [][ValidateNext]_vars

\* a cleanup pass alone, on a session whose constructor has started the
\* bootstrap pass, for every valid pair of threshold and target up to
\* MaxTarget and every total size the pass's probe may report up to MaxTotal
MaxTarget == 4
MaxTotal == 6
CleanTotals == 0..MaxTotal
CleanConfigs ==
    {c \in [RootDir : {"/backup"}, FreeSpaceThreshold : 1..MaxTarget,
            TargetFreeSpace : 1..MaxTarget,
            CheckInterval : {U64(0, DefaultCheckInterval)},
            MaxUsagePercent : MaxUsagePercents] :
        validateLocalConfig(c) = Nil}

CleanInit ==
    /\ kind = "local"
    /\ config \in CleanConfigs
    /\ ctor = [pc |-> "ready", err |-> Nil, free |-> <<>>]
    /\ accumulatedSize = 0
    /\ isCleaningActive = TRUE
    /\ cleaningMutex = 0
    /\ cleaningDone = "open"
    /\ wg = 1
    /\ task = 1 :> [origin |-> "bootstrap", pc |-> "spawned", outcome |-> Nil,
                    arg |-> <<>>, awaitedBy |-> {}, untouched |-> FALSE]
    /\ saver = [s \in Savers |-> IdleSaver]
    /\ waiter = [w \in Waiters |-> IdleWaiter]
    /\ panicked = FALSE
    /\ sinceReset = 0

CleanNext ==
    \E t \in TaskIds :
        \/ PassProbeOf(t, CleanTotals)
        \/ PassEngineReturns(t)
        \/ PassStoreIdle(t)
        \/ PassReset(t)
        \/ TaskDone(t)

CleanSpec == CleanInit /\ [][CleanNext]_vars

\* the session in use by one goroutine that calls Save, one call after the
\* other, while the cleanup passes and the uploads run in the background
SeqNext ==
    \/ ConstructLocal
    \/ ConstructRemote
    \/ ConstructReturn
    \/ SaverStep(1)
    \/ \E t \in TaskIds : TaskStep(t)

SeqSpec == Init /\ [][SeqNext]_vars

\* the remote session in use by concurrent callers of Save and callers of
\* WaitForCompletion, while the uploads run in the background
UploadNext ==
    \/ ConstructRemote
    \/ ConstructReturn
    \/ \E s \in Savers : SaveBegin(s) \/ RemoteDispatch(s) \/ SaveReturned(s)
    \/ \E t \in TaskIds : UploadRun(t) \/ TaskDone(t)
    \/ \E w \in Waiters : WaiterStep(w)

UploadSpec == Init /\ [][UploadNext]_vars

\* the same session with a caller that may call Close at any time
CloseNext ==
    \/ SeqNext
    \/ Close

CloseSpec == Init /\ [][CloseNext]_vars

\* the session in use by one goroutine that calls Save and by the callers of
\* WaitForCompletion
WaitNext ==
    \/ ConstructLocal
    \/ ConstructRemote
    \/ ConstructReturn
    \/ SaverStep(1)
    \/ \E t \in TaskIds : TaskStep(t)
    \/ \E w \in Waiters : WaiterStep(w)

\* the scheduler runs the helper goroutine of a WaitForCompletion and the
\* select statement takes a case that is ready; nothing is assumed of the
\* background tasks
WaitFairness ==
    \A w \in Waiters :
        /\ WF_vars(HelperDone(w))
        /\ WF_vars(WaitTimeout(w) \/ WaitOk(w))

WaitLiveSpec == Init /\ [][WaitNext]_vars /\ WaitFairness

\* the session in use by callers of Save
SaveNext ==
    \/ ConstructLocal
    \/ ConstructRemote
    \/ ConstructReturn
    \/ \E s \in Savers : SaverStep(s)
    \/ \E t \in TaskIds : TaskStep(t)

\* the scheduler runs a goroutine that is inside Save, and sync.Mutex hands
\* the lock to a goroutine that keeps waiting for it; nothing is assumed of
\* the background tasks
SaveFairness ==
    \A s \in Savers :
        /\ WF_vars(SaveAdd(s) \/ CheckFast(s) \/ CheckProbe(s)
                      \/ CheckAbandon(s) \/ CheckStoreActive(s)
                      \/ CheckDispatch(s) \/ RemoteDispatch(s))
        /\ SF_vars(CheckLock(s))

SaveFairSpec == Init /\ [][SaveNext]_vars /\ SaveFairness

\* the callers of Save and the background goroutines, nothing assumed of
\* the scheduler
SaveSpec == Init /\ [][SaveNext]_vars

\* the scheduler runs every background goroutine, and the probe and the
\* engine it calls return
PassFairness == \A t \in TaskIds : WF_vars(TaskStep(t))

PassFairSpec == Init /\ [][SaveNext]_vars /\ PassFairness

----------------------------------------------------------------------------
(* Properties *)

\* the cleanup passes alive
Cleanups == {t \in DOMAIN task : IsCleanup(t)}
\* a pass between its dispatch and its Store(false): the engine may execute
BeforeIdle == {t \in Cleanups : task[t].pc \in {"spawned", "engine", "deferIdle"}}
\* the Saves that have decided to start a pass and have not yet dispatched it
Starting == {s \in Savers : saver[s].pc \in {"store", "dispatch"}}
\* the goroutine t releases its unit of Outstanding Work in this step
Releases(t) ==
    /\ t \in DOMAIN task
    /\ task[t].pc = "deferDone"
    /\ t \notin DOMAIN task'
    /\ ~panicked'
SaveReturnedOk(s) == saver[s].pc = "returned" /\ saver[s].result = "ok"
WaitReturnedOk(w) == waiter[w].pc = "returned" /\ waiter[w].result = "ok"
WaitReturnedTimeout(w) == waiter[w].pc = "returned" /\ waiter[w].result = "timeout"

\* C1: at most one cleanup pass is between its start and its return to Idle:
\* counting the passes dispatched and not yet back at Store(false), and the
\* Saves that are about to dispatch one, there is never more than one, so no
\* pass is started while another may still be in the engine.
C1_OnePassAtATime ==
    Cardinality(BeforeIdle) + Cardinality(Starting) <= 1

\* C1 witness: a pass started by a Save is in the engine while another Save,
\* which passed the fast check when the state was Idle, waits for the lock.
C1_Witness ==
    /\ \E t \in Cleanups : task[t].origin = "save" /\ task[t].pc = "engine"
    /\ \E s \in Savers : saver[s].pc = "lock"

\* C2: no increment is lost: the accumulated size is the sum of the sizes
\* the Saves have added since the last reset.
C2_NoLostUpdate == accumulatedSize = sinceReset

\* C2 witness: all savers have returned ok from Saves that ran concurrently
\* and the sizes they added make up the bound.
C2_Witness ==
    /\ kind = "local"
    /\ accumulatedSize = MaxAccumulated
    /\ \A s \in Savers : SaveReturnedOk(s)

\* C3: when the constructor's probe reports free < freeSpaceThreshold, the
\* constructor has set Active, registered one unit and started the bootstrap
\* pass when it reaches its return statement, and no WaitForCompletion returns
\* ok while the bootstrap pass has not ended.
C3_Bootstrap ==
    /\ [][(ctor.pc = "start" /\ ctor'.pc = "returning" /\ kind = "local"
            /\ BelowThreshold(ctor'.free[1], config'))
          => (/\ isCleaningActive'
              /\ wg' = 1
              /\ \E t \in DOMAIN task' : task'[t].origin = "bootstrap")]_vars
    /\ [](\A w \in Waiters :
            WaitReturnedOk(w) =>
                ~\E t \in DOMAIN task : task[t].origin = "bootstrap")

\* C3 witness: no Save has been called, the bootstrap pass is in the engine
\* and a WaitForCompletion with context.Background() is blocked on it.
C3_Witness ==
    /\ \E t \in Cleanups : task[t].origin = "bootstrap" /\ task[t].pc = "engine"
    /\ \E w \in Waiters :
        /\ waiter[w].pc = "select"
        /\ waiter[w].ctx = "background"
        /\ waiter[w].helper = "waiting"
    /\ \A s \in Savers : saver[s].pc = "idle"
    /\ accumulatedSize = 0

\* C4 as claimed: whenever a cleanup pass releases its unit, the accumulated
\* size is zero and the cleaning state is Idle.
C4_Original ==
    [][\A t \in TaskIds :
          (Releases(t) /\ IsCleanup(t)) =>
              (accumulatedSize' = 0 /\ ~isCleaningActive')]_vars

\* C4 as amended: a pass that releases its unit has set Idle and reset the
\* size before, on every outcome: at the release the accumulated size is zero
\* unless a Save added bytes after the reset, and the state is Idle unless a
\* Save has started, or is starting, a new pass since.
C4_Amended ==
    [][\A t \in TaskIds :
          (Releases(t) /\ IsCleanup(t)) =>
              /\ task[t].untouched => accumulatedSize' = 0
              /\ isCleaningActive' =>
                    Cardinality(BeforeIdle) + Cardinality(Starting) >= 1]_vars

\* C4 witness: a pass whose engine failed is about to release its unit, with
\* the state Idle and the size zero, while a Save is in progress.
C4_Witness ==
    /\ \E t \in Cleanups :
        /\ task[t].pc = "deferDone"
        /\ task[t].outcome = "engineError"
        /\ task[t].untouched
    /\ ~isCleaningActive
    /\ accumulatedSize = 0
    /\ \E s \in Savers : saver[s].pc = "add"

\* C5: WaitForCompletion returns ok only when every background goroutine
\* that was registered and running when the call began has ended.
C5_WaitOkAfterWork ==
    \A w \in Waiters :
        WaitReturnedOk(w) => \A t \in DOMAIN task : w \notin task[t].awaitedBy

\* C5 witness: a call that began while background work was running has
\* returned ok.
C5_Witness == \E w \in Waiters : WaitReturnedOk(w) /\ waiter[w].hadWork

\* C7 as claimed: a WaitForCompletion called with an already expired or
\* cancelled context returns the timeout error.
C7_ExpiredTimesOut ==
    \A w \in Waiters :
        (waiter[w].pc = "returned" /\ waiter[w].expiredAtCall)
            => waiter[w].result = "timeout"

\* C10: a local Save with valid input whose copy succeeded returns ok.
C10_ValidSaveOk ==
    kind = "local" =>
        \A s \in Savers :
            (saver[s].pc = "returned" /\ saver[s].input = "valid")
                => saver[s].result = "ok"

\* C10 witness: a local Save has returned ok while a cleanup pass, whose own
\* probe failed, has not yet set the state back to Idle.
C10_Witness ==
    /\ kind = "local"
    /\ isCleaningActive
    /\ \E s \in Savers : SaveReturnedOk(s) /\ saver[s].input = "valid"
    /\ \E t \in Cleanups : task[t].outcome = "probeError"

\* the fields of the tasks that the program holds
TaskCore(tk) ==
    [t \in DOMAIN tk |->
        [origin |-> tk[t].origin, pc |-> tk[t].pc, outcome |-> tk[t].outcome,
         arg |-> tk[t].arg]]
\* WaitForCompletion is blocked in its select with a context that never expires
WaitingForever(w) == waiter[w].pc = "select" /\ waiter[w].ctx = "background"

\* C6: if from some point on no background task is registered or running,
\* every WaitForCompletion with a context that never expires eventually
\* returns ok.
C6_WaitReturns ==
    \A w \in Waiters :
        <>[](wg = 0) => (WaitingForever(w) ~> WaitReturnedOk(w))

\* C6 witness: a call with context.Background() that began while background
\* work was running is about to return ok: the work has ended and the helper
\* has closed the channel.
C6_Witness ==
    \E w \in Waiters :
        /\ WaitingForever(w)
        /\ waiter[w].hadWork
        /\ waiter[w].helper = "closed"
        /\ wg = 0

\* C8: no step of WaitForCompletion, the return of the timeout error
\* included, changes the accumulated size, the cleaning state, the lock, the
\* outstanding work or any background task; and after a timeout a later
\* WaitForCompletion with a context that never expires returns ok once the
\* outstanding work stays at zero.
C8_TimeoutChangesNothing ==
    /\ [][(waiter' # waiter /\ ~panicked')
            => (UNCHANGED sessionVars /\ TaskCore(task') = TaskCore(task))]_vars
    /\ \A w \in Waiters :
        <>[](wg = 0) =>
            [](WaitReturnedTimeout(w) =>
                  [](WaitingForever(w) => <>WaitReturnedOk(w)))

\* C8 witness: WaitForCompletion has returned the timeout error and a task
\* it was waiting for is still in the engine, its unit still registered.
C8_Witness ==
    \E w \in Waiters :
        /\ WaitReturnedTimeout(w)
        /\ wg >= 1
        /\ \E t \in DOMAIN task :
            w \in task[t].awaitedBy /\ task[t].pc = "engine"

\* C9: every local Save that has been called returns, whatever the cleanup
\* passes do, even when a pass stays Active forever.
C9_SaveReturns ==
    \A s \in Savers :
        (kind = "local" /\ s \in InCall) ~> (saver[s].pc = "returned")

\* C9 witness: a Save has returned ok while the bootstrap pass, started
\* before any Save, is still in the engine and the state is Active.
C9_Witness ==
    /\ kind = "local"
    /\ isCleaningActive
    /\ \E t \in Cleanups : task[t].origin = "bootstrap" /\ task[t].pc = "engine"
    /\ \E s \in Savers : SaveReturnedOk(s) /\ saver[s].input = "valid"

\* C11 as claimed: NewLocalBackupSession never returns the error of its
\* capacity probe.
C11_ProbeErrorAbsorbed ==
    kind = "local" => ~(ctor.pc = "error" /\ ctor.err = "ErrDiskUsage")

\* C12: a Save with an empty source path or an empty relative path returns
\* ErrInvalidConfig in its first step, without passing through the copy, the
\* accumulation, the capacity check or the upload dispatch, and that step
\* leaves the accumulated size, the cleaning state, the lock, the outstanding
\* work and the background tasks unchanged.
C12_EmptyPathRejected ==
    /\ [](\A s \in Savers :
            saver[s].input = "empty" =>
                (saver[s].pc = "returned" /\ saver[s].result = "ErrInvalidConfig"))
    /\ [][\A s \in Savers :
            (saver[s].pc = "idle" /\ saver'[s].input = "empty")
                => UNCHANGED <<sessionVars, taskVars, sinceReset>>]_vars

\* C12 witness: a Save with an empty path has returned ErrInvalidConfig on a
\* session that holds accumulated bytes and a running background task.
C12_Witness ==
    /\ accumulatedSize > 0
    /\ wg >= 1
    /\ \E s \in Savers :
        /\ saver[s].pc = "returned"
        /\ saver[s].input = "empty"
        /\ saver[s].result = "ErrInvalidConfig"

\* the configuration the caller passed is one the constructor must refuse
InvalidLocalConfig(c) ==
    \/ c.RootDir = ""
    \/ c.FreeSpaceThreshold = 0
    \/ c.TargetFreeSpace <= c.FreeSpaceThreshold

\* C13: NewLocalBackupSession returns ErrInvalidConfig, with no pass started
\* and nothing registered, exactly when RootDir is empty, FreeSpaceThreshold
\* is 0 or TargetFreeSpace <= FreeSpaceThreshold; a constructed session has
\* TargetFreeSpace > FreeSpaceThreshold > 0, and no step changes RootDir,
\* FreeSpaceThreshold or TargetFreeSpace.
C13_ConfigValidated ==
    /\ [](kind = "local" =>
            /\ ctor.pc = "error" =>
                  /\ (ctor.err = "ErrInvalidConfig") <=> InvalidLocalConfig(config)
                  /\ wg = 0 /\ ~isCleaningActive /\ task = <<>>
            /\ ctor.pc \in {"returning", "ready"} =>
                  /\ config.TargetFreeSpace > config.FreeSpaceThreshold
                  /\ config.FreeSpaceThreshold > 0
                  /\ config.RootDir # "")
    /\ [][kind = "local" =>
            /\ config'.RootDir = config.RootDir
            /\ config'.FreeSpaceThreshold = config.FreeSpaceThreshold
            /\ config'.TargetFreeSpace = config.TargetFreeSpace]_vars

\* C13 witness: the constructor has refused a configuration whose only fault
\* is TargetFreeSpace = FreeSpaceThreshold.
C13_Witness ==
    /\ kind = "local"
    /\ ctor.pc = "error"
    /\ ctor.err = "ErrInvalidConfig"
    /\ config.RootDir # ""
    /\ config.FreeSpaceThreshold > 0
    /\ config.TargetFreeSpace = config.FreeSpaceThreshold

\* the uploads that have been dispatched and have not released their unit
Uploads == {t \in DOMAIN task : task[t].origin = "upload"}

\* C14: a remote Save that returns ok has, in the step that returns, added
\* one unit to the outstanding work and started its upload, which has not
\* run yet; and no WaitForCompletion on a remote session returns ok while an
\* upload that was registered when the call began has not ended.
C14_UploadRegistered ==
    /\ [][\A s \in Savers :
            (kind = "remote" /\ saver[s].pc = "add" /\ saver'[s].pc = "returned")
                => /\ saver'[s].result = "ok"
                   /\ wg' = wg + 1
                   /\ \E t \in DOMAIN task' \ DOMAIN task :
                        /\ task'[t].origin = "upload"
                        /\ task'[t].pc = "spawned"
                   /\ \A t \in DOMAIN task : task'[t] = task[t]]_vars
    /\ [](kind = "remote" =>
            \A w \in Waiters :
                WaitReturnedOk(w) =>
                    ~\E t \in Uploads : w \in task[t].awaitedBy)

\* C14 witness: all the savers have returned ok from concurrent Saves, their
\* uploads have not run, and a WaitForCompletion that began afterwards is
\* blocked on them.
C14_Witness ==
    /\ kind = "remote"
    /\ \A s \in Savers : SaveReturnedOk(s)
    /\ Cardinality({t \in Uploads : task[t].pc = "spawned"}) = NumSavers
    /\ \E w \in Waiters :
        /\ waiter[w].pc = "select"
        /\ waiter[w].helper = "waiting"
        /\ \A t \in Uploads : w \in task[t].awaitedBy

C16_OutstandingWorkCounts ==
    /\ wg >= 0
    /\ wg = Cardinality(DOMAIN task)

\* C16 witness: on a local session a pass whose engine failed has not yet
\* released its unit while the next pass is registered: two units.
C16_Witness ==
    /\ kind = "local"
    /\ wg = 2
    /\ \E t \in Cleanups : task[t].outcome = "engineError" /\ task[t].pc = "deferDone"
    /\ \E t \in Cleanups : task[t].pc = "engine"

\* C17: when the probe of the constructor reports free >= FreeSpaceThreshold,
\* the session it returns is Idle with accumulated size 0, no outstanding
\* work and no pass.
C17_NoBootstrapWhenSpace ==
    (kind = "local" /\ ctor.pc = "returning"
        /\ ctor.free[1] >= config.FreeSpaceThreshold)
        => (/\ ~isCleaningActive
            /\ accumulatedSize = 0
            /\ wg = 0
            /\ task = <<>>)

\* C17 witness: the constructor is at its return with a probe answer equal
\* to the threshold and nothing started.
C17_Witness ==
    /\ kind = "local"
    /\ ctor.pc = "returning"
    /\ ctor.free = <<config.FreeSpaceThreshold>>
    /\ wg = 0
    /\ ~isCleaningActive

\* C18 as claimed: a call of Close, in any state, returns and leaves the
\* accumulated size, the cleaning state, the outstanding work, the background
\* tasks and the calls of Save and WaitForCompletion in progress as they were.
C18_CloseChangesNothing ==
    [][(cleaningDone' # cleaningDone \/ panicked' # panicked)
          => (/\ ~panicked'
              /\ UNCHANGED <<accumulatedSize, isCleaningActive, cleaningMutex,
                             wg, task, saver, waiter>>)]_vars

\* C19 as claimed: every call of Close returns ok: none panics.
C19_CloseReturnsOk == ~panicked

\* C20: validateS3Config gives ErrInvalidConfig exactly for an empty Region,
\* an empty Bucket or an ACL that is neither empty nor one of the seven
\* canned names, whatever the credentials and the endpoint; NewS3BackupSession
\* returns ErrInvalidConfig for exactly these configurations.
C20_S3ConfigValidated ==
    /\ \A c \in S3ValidationInputs :
        /\ validateS3Config(c) \in {Nil, "ErrInvalidConfig"}
        /\ (validateS3Config(c) = "ErrInvalidConfig")
             <=> (c.Region = "" \/ c.Bucket = "" \/ c.ACL \notin KnownACLs)
    /\ ctor.pc # "start" =>
        ((ctor.pc = "error" /\ ctor.err = "ErrInvalidConfig")
            <=> (\/ config.Region = ""
                 \/ config.Bucket = ""
                 \/ config.ACL \notin KnownACLs))

\* C20 witness: NewS3BackupSession has accepted a configuration without
\* credentials and without endpoint, with the last of the canned ACLs.
C20_Witness ==
    /\ ctor.pc = "returning"
    /\ config.AccessKeyID = ""
    /\ config.SecretAccessKey = ""
    /\ config.Endpoint = ""
    /\ config.ACL = "bucket-owner-full-control"

\* C21 as claimed: every change of the cleaning state from Idle to Active
\* happens while the cleaning lock is held.
C21_Original ==
    [][(~isCleaningActive /\ isCleaningActive') => cleaningMutex # 0]_vars

\* C21 as amended: a change from Idle to Active is made either by the
\* constructor, whose probe reported free below the threshold, before any
\* Save exists and with no lock, or by a Save that holds the cleaning lock
\* and is past the re-check and a probe under the lock that reported free
\* below the threshold; and a Save between the re-check and its Store(true)
\* holds the lock with the state Idle.
C21_Amended ==
    /\ [][(~isCleaningActive /\ isCleaningActive') =>
            \/ /\ ctor.pc = "start"
               /\ ctor'.pc = "returning"
               /\ BelowThreshold(ctor'.free[1], config')
               /\ cleaningMutex = 0
            \/ \E s \in Savers :
                /\ saver[s].pc = "store"
                /\ cleaningMutex = s
                /\ cleaningMutex' = s]_vars
    /\ [](\A s \in Savers :
            saver[s].pc \in {"probe", "abandon", "store"} =>
                (cleaningMutex = s /\ ~isCleaningActive))

\* C21 witness: a Save holding the lock has just set Active and not yet
\* dispatched its pass, while another Save waits for the lock.
C21_Witness ==
    /\ isCleaningActive
    /\ \E s \in Savers : saver[s].pc = "dispatch" /\ cleaningMutex = s
    /\ \E s \in Savers : saver[s].pc = "lock"
    /\ task = <<>>

\* C22: every cleanup pass that has been started sets the cleaning state to
\* Idle and then releases its unit, whether its probe failed, its engine
\* failed or its engine succeeded.
C22_PassEnds ==
    \A t \in TaskIds :
        /\ (t \in BeforeIdle)
              ~> (/\ t \in Cleanups
                  /\ task[t].pc = "deferReset"
                  /\ ~isCleaningActive)
        /\ \A o \in {"probeError", "engineError", "cleaned"} :
              (t \in Cleanups /\ task[t].outcome = o) ~> (t \notin DOMAIN task)

\* C22 witness: a pass whose own probe failed has set the state to Idle.
C22_Witness ==
    /\ ~isCleaningActive
    /\ \E t \in Cleanups :
        task[t].pc = "deferReset" /\ task[t].outcome = "probeError"

\* the uint64 CheckInterval as a number: is n at least that number; every n
\* of the model is below 2^63
ReachesInterval(n, u) == u.hi = 0 /\ n >= u.lo

\* C23 as claimed: a Save enters the capacity check only if the total its
\* add returned is at least CheckInterval.
C23_CheckOnlyAtInterval ==
    [][\A s \in Savers :
          (kind = "local" /\ saver[s].pc = "add" /\ saver'[s].pc = "fast")
              => ReachesInterval(accumulatedSize', config.CheckInterval)]_vars

\* the Save s executes its atomic add in this step
Adds(s) == kind = "local" /\ saver[s].pc = "add" /\ saver'[s].pc # "add"

\* C24: the adds of concurrent Saves sum up without loss, and the Save whose
\* add returns a total of at least CheckInterval enters the capacity check:
\* when the sizes reach the interval, the Save that adds last observes it.
C24_NoMissedTrigger ==
    /\ [](accumulatedSize = sinceReset)
    /\ [][\A s \in Savers :
            Adds(s) =>
                /\ accumulatedSize' = accumulatedSize + saver[s].size
                /\ ReachesInterval(accumulatedSize', config.CheckInterval)
                      => saver'[s].pc = "fast"]_vars

\* C24 witness: of two concurrent Saves the first has returned without a
\* check and the second, whose add brought the total to CheckInterval, is
\* in the capacity check.
C24_Witness ==
    /\ kind = "local"
    /\ config.CheckInterval = U64(0, accumulatedSize)
    /\ \E s \in Savers : SaveReturnedOk(s) /\ saver[s].input = "valid"
    /\ \E s \in Savers : saver[s].pc = "fast"
    /\ task = <<>>

\* C25: a capacity check whose probe under the lock failed starts nothing:
\* no probe error leads to a pass; from the failure to the return the state
\* is Idle and the lock is held by the checking Save; the return releases the
\* lock, yields ok and leaves the accumulated size, the cleaning state, the
\* outstanding work and the tasks unchanged.
C25_ProbeFailureAbandons ==
    /\ [](kind = "local" =>
            \A free \in FreeValues : ~StartsPass(FALSE, free, config))
    /\ [](\A s \in Savers :
            saver[s].pc = "abandon" => (cleaningMutex = s /\ ~isCleaningActive))
    /\ [][\A s \in Savers :
            /\ (saver'[s].pc = "abandon" /\ saver[s].pc # "abandon")
                  => UNCHANGED <<accumulatedSize, isCleaningActive, wg, task,
                                 cleaningMutex>>
            /\ (saver[s].pc = "abandon" /\ saver'[s].pc # "abandon")
                  => /\ saver'[s].pc = "returned"
                     /\ saver'[s].result = "ok"
                     /\ cleaningMutex' = 0
                     /\ UNCHANGED <<accumulatedSize, isCleaningActive, wg,
                                    task>>]_vars

\* C25 witness: the probe of a capacity check has failed while another Save
\* waits for the lock and the accumulated size is at the bound.
C25_Witness ==
    /\ accumulatedSize = MaxAccumulated
    /\ \E s \in Savers : saver[s].pc = "abandon"
    /\ \E s \in Savers : saver[s].pc = "lock"

\* C26: the accumulated size changes only by the add of a Save, which
\* raises it by the file's size, and by the reset of a finishing cleanup
\* pass, which sets it to zero; so a Save that adds when the total has
\* already reached CheckInterval enters the capacity check.
C26_ResetOnlyByPass ==
    /\ [][accumulatedSize' # accumulatedSize =>
            \/ \E s \in Savers :
                Adds(s) /\ accumulatedSize' = accumulatedSize + saver[s].size
            \/ /\ accumulatedSize' = 0
               /\ \E t \in Cleanups :
                    /\ task[t].pc = "deferReset"
                    /\ t \in DOMAIN task'
                    /\ task'[t].pc = "deferDone"]_vars
    /\ [][\A s \in Savers :
            (Adds(s) /\ ReachesInterval(accumulatedSize, config.CheckInterval))
                => saver'[s].pc = "fast"]_vars

\* C26 witness: with the total above CheckInterval and no pass started by
\* the earlier checks, a further Save is in the capacity check.
C26_Witness ==
    /\ kind = "local"
    /\ config.CheckInterval.hi = 0
    /\ config.CheckInterval.lo < accumulatedSize
    /\ ~isCleaningActive
    /\ task = <<>>
    /\ \E s \in Savers : saver[s].pc = "fast"
    /\ \E s \in Savers : SaveReturnedOk(s)

\* C27 as claimed, for a CheckInterval below 2^63: once every cleanup pass
\* has completed, a Save begins the capacity check only if the Saves have
\* added at least CheckInterval bytes since the last reset.
C27_NoEarlyCheck ==
    [][\A s \in Savers :
          (/\ kind = "local"
           /\ config.CheckInterval.hi = 0
           /\ Cleanups = {}
           /\ saver[s].pc = "fast"
           /\ saver'[s].pc # "fast")
              => sinceReset >= config.CheckInterval.lo]_vars

\* the goroutine t takes a step of its own
Moves(t) == t \notin DOMAIN task' \/ task'[t].pc # task[t].pc
\* no Save is running
NoSave == \A s \in Savers : saver[s].pc = "idle"
\* the WaitForCompletion w waits for a cleanup pass that has not begun its
\* completion, and no Save is running
AwaitsPass(w) ==
    /\ kind = "local"
    /\ NoSave
    /\ \E t \in BeforeIdle : w \in task[t].awaitedBy

C29_FreshSnapshot ==
    /\ [][\A s \in Savers :
            /\ (saver'[s].pc = "probe" /\ saver[s].pc # "probe")
                  => /\ saver[s].pc = "lock"
                     /\ cleaningMutex = 0
                     /\ cleaningMutex' = s
                     /\ ~isCleaningActive
            /\ (saver'[s].pc = "store" /\ saver[s].pc # "store")
                  => /\ saver[s].pc = "probe"
                     /\ cleaningMutex = s
                     /\ ~isCleaningActive]_vars
    /\ [](ctor.pc = "ready" => ctor.free = <<>>)
    /\ [](\A t \in DOMAIN task :
            task[t].arg # <<>> => (IsCleanup(t) /\ task[t].pc = "engine"))
    /\ [][\A t \in DOMAIN task' :
            (task'[t].pc = "engine" /\ task'[t].arg # <<>>)
                => /\ t \in DOMAIN task
                   /\ task[t].pc \in {"spawned", "engine"}
                   /\ task[t].pc = "engine" => task'[t].arg = task[t].arg]_vars

\* C29 witness: after an earlier pass has set the state back to Idle, a Save
\* holding the lock has decided from its own snapshot to start a new pass.
C29_Witness ==
    /\ ctor.pc = "ready"
    /\ \E s \in Savers : saver[s].pc = "store" /\ cleaningMutex = s
    /\ \E t \in Cleanups : task[t].pc \in {"deferReset", "deferDone"}

\* the positions of a Save between Lock and Unlock
SlowPath == {"probe", "abandon", "store", "dispatch"}

\* C30: the lock is held exactly by a Save that is in the slow path of its
\* capacity check; every exit from the slow path, and the exit of a Save
\* that found the state Active under the lock, returns from Save with the
\* lock free, the dispatched pass being still at its start; no step of a
\* background task changes the lock; and every Save that waits for the lock
\* gets past it.
C30_LockReleased ==
    /\ [](\A s \in Savers : cleaningMutex = s <=> saver[s].pc \in SlowPath)
    /\ [][\A s \in Savers :
            /\ (saver[s].pc \in SlowPath \cup {"lock"}
                  /\ saver'[s].pc \notin SlowPath \cup {"lock"})
                  => (saver'[s].pc = "returned" /\ cleaningMutex' = 0)
            /\ (saver[s].pc = "dispatch" /\ saver'[s].pc # "dispatch")
                  => \E t \in DOMAIN task' \ DOMAIN task :
                        task'[t].pc = "spawned"]_vars
    /\ [][(task' # task /\ saver' = saver)
            => cleaningMutex' = cleaningMutex]_vars
    /\ \A s \in Savers : (saver[s].pc = "lock") ~> (saver[s].pc # "lock")

\* C30 witness: the Save that dispatched a pass has returned and the lock is
\* free while the pass is in the engine and another Save waits for the lock.
C30_Witness ==
    /\ cleaningMutex = 0
    /\ isCleaningActive
    /\ \E t \in Cleanups : task[t].origin = "save" /\ task[t].pc = "engine"
    /\ \E s \in Savers : SaveReturnedOk(s)
    /\ \E s \in Savers : saver[s].pc = "lock"

\* the errors of a local Save whose paths are not empty
FileErrors == {"ErrStat", "ErrInvalidConfig", "ErrMkdir", "ErrBackupFailed"}

\* C31: a local Save whose stat, file type test, MkdirAll or copy fails
\* returns that error in the step of the call, never reaching the add or the
\* capacity check, and the step leaves the accumulated size, the cleaning
\* state, the lock, the outstanding work and the tasks unchanged; the
\* accumulated size grows only by the add of a Save whose copy succeeded.
C31_FailedSaveAddsNothing ==
    /\ [](kind = "local" =>
            \A s \in Savers :
                saver[s].input = "failing" =>
                    (saver[s].pc = "returned" /\ saver[s].result \in FileErrors))
    /\ [][\A s \in Savers :
            (kind = "local" /\ saver[s].pc = "idle"
                /\ saver'[s].input = "failing")
                => UNCHANGED <<sessionVars, taskVars, sinceReset>>]_vars
    /\ [][accumulatedSize' > accumulatedSize =>
            \E s \in Savers : Adds(s) /\ saver[s].input = "valid"]_vars

\* C31 witness: a Save whose copy failed has returned ErrBackupFailed on a
\* session that holds the bytes of an earlier Save.
C31_Witness ==
    /\ kind = "local"
    /\ accumulatedSize > 0
    /\ \E s \in Savers :
        /\ saver[s].pc = "returned"
        /\ saver[s].input = "failing"
        /\ saver[s].result = "ErrBackupFailed"

\* the engine is running with the default the pass computed itself
RunsOnDefault(t) ==
    /\ kind = "local"
    /\ task[t].pc = "engine"
    /\ config.MaxUsagePercent = <<>>

\* C32 as claimed: the default target usage a pass hands to the engine is
\* 100 * (total - TargetFreeSpace) / total when TargetFreeSpace < total, a
\* number strictly between 0 and 100, and 0 percent otherwise.
C32_TargetClamped ==
    \A t \in Cleanups :
        RunsOnDefault(t) =>
            LET p == task[t].arg[1]
                total == p.den
            IN  /\ p.num = 100 * (IF config.TargetFreeSpace < total
                                  THEN total - config.TargetFreeSpace
                                  ELSE 0)
                /\ total > 0
                /\ IF config.TargetFreeSpace >= total
                   THEN p.num = 0
                   ELSE 0 < p.num /\ p.num < 100 * total

\* C33: a pass that calls the engine hands it the caller's MaxUsagePercent
\* unchanged when the configuration has one, and otherwise the target usage
\* computed from the total its own probe reported; no step of a pass changes
\* the configuration stored in the session.
C33_CallerOverrideWins ==
    /\ [][\A t \in DOMAIN task :
            (task[t].pc = "spawned" /\ t \in DOMAIN task'
                /\ task'[t].pc = "engine")
                => IF config.MaxUsagePercent = <<>>
                   THEN \E total \in CleanTotals :
                           task'[t].arg = <<TargetUsagePercent(total, config)>>
                   ELSE task'[t].arg =
                           <<[num |-> config.MaxUsagePercent[1], den |-> 1]>>]_vars
    /\ [][task' # task => config' = config]_vars
    /\ [](\A t \in Cleanups :
            (task[t].pc = "engine" /\ config.MaxUsagePercent # <<>>)
                => task[t].arg[1].num = config.MaxUsagePercent[1] * task[t].arg[1].den)

\* C33 witness: the engine runs with the caller's MaxUsagePercent on a
\* session whose target free space would have given another value.
C33_Witness ==
    /\ kind = "local"
    /\ config.MaxUsagePercent # <<>>
    /\ config.TargetFreeSpace = MaxTarget
    /\ \E t \in Cleanups :
        /\ task[t].pc = "engine"
        /\ task[t].arg = <<[num |-> config.MaxUsagePercent[1], den |-> 1]>>

\* C34: the constructor of a local session replaces a CheckInterval of 0 by
\* 2^30 and keeps every other value, and no later step changes it; on a
\* session with the interval 2^30 a Save whose add returns a total below 2^30
\* returns ok from the add, without a capacity check.
C34_DefaultInterval ==
    /\ [][(kind = "local" /\ ctor.pc = "start" /\ ctor'.pc = "returning")
            => config'.CheckInterval =
                  IF config.CheckInterval = U64(0, 0)
                  THEN U64(0, 2^30)
                  ELSE config.CheckInterval]_vars
    /\ [][(kind = "local" /\ ctor.pc # "start")
            => config'.CheckInterval = config.CheckInterval]_vars
    /\ [][\A s \in Savers :
            (Adds(s) /\ config.CheckInterval = U64(0, 2^30)
                /\ accumulatedSize' < 2^30)
                => SaveReturnedOk(s)']_vars

\* C34 witness: on a session built with CheckInterval 0 the Saves have added
\* bytes up to the bound, the last of them has returned ok, and nothing has
\* been started.
C34_Witness ==
    /\ kind = "local"
    /\ ctor.pc = "ready"
    /\ config.CheckInterval = U64(0, 2^30)
    /\ accumulatedSize = MaxAccumulated
    /\ \E s \in Savers : SaveReturnedOk(s) /\ saver[s].input = "valid"
    /\ task = <<>>
    /\ ~isCleaningActive

\* the remote Save s returns ok in this step
RemoteSaveSucceeds(s) ==
    kind = "remote" /\ saver[s].pc = "add" /\ SaveReturnedOk(s)'

C36_ActiveAtReturn ==
    (/\ kind = "local"
     /\ ctor.pc = "returning"
     /\ ctor.free[1] < config.FreeSpaceThreshold)
        => isCleaningActive

\* C37: while a cleanup pass has not returned from the engine the state is
\* Active: the state is Active in the step that starts a pass, and it goes
\* from Active to Idle only in the deferred step of a pass, which follows
\* the return of its engine call or the failure of its probe.
C37_ActiveWhileEngineRuns ==
    /\ [](\A t \in Cleanups :
            task[t].pc \in {"spawned", "engine"} => isCleaningActive)
    /\ [][\A t \in DOMAIN task' \ DOMAIN task :
            task'[t].origin \in {"bootstrap", "save"}
                => (isCleaningActive' /\ task'[t].pc = "spawned")]_vars
    /\ [][(isCleaningActive /\ ~isCleaningActive')
            => \E t \in Cleanups :
                  /\ task[t].pc = "deferIdle"
                  /\ task[t].outcome \in {"cleaned", "engineError", "probeError"}
                  /\ Moves(t)]_vars

\* C37 witness: the engine of a pass started by a Save is running, the state
\* is Active, and a Save that reached the interval is about to read it.
C37_Witness ==
    /\ isCleaningActive
    /\ \E t \in Cleanups : task[t].origin = "save" /\ task[t].pc = "engine"
    /\ \E s \in Savers : saver[s].pc = "fast"

\* the passes that have set the state to Idle and not released their unit
PastIdle == {t \in Cleanups : task[t].pc \in {"deferReset", "deferDone"}}

\* C38 as claimed: on a local session the outstanding work never exceeds 1.
C38_Original == kind = "local" => wg <= 1

\* C38 as amended: on a local session the background tasks are cleanup
\* passes only and the outstanding work counts, besides the passes that have
\* already set the state to Idle and not yet released their unit, at most
\* one pass; a pass is registered, by one unit, only when no earlier pass is
\* still before its return to Idle.
C38_Amended ==
    /\ [](kind = "local" =>
            /\ DOMAIN task = Cleanups
            /\ wg - Cardinality(PastIdle) \in {0, 1})
    /\ [][(kind = "local" /\ wg' > wg)
            => /\ wg' = wg + 1
               /\ BeforeIdle = {}
               /\ isCleaningActive']_vars

\* C38 witness: the bootstrap pass has set Idle and reset the size but not
\* released its unit, and a pass started by a Save since is registered too.
C38_Witness ==
    /\ kind = "local"
    /\ wg = 2
    /\ \E t \in PastIdle : task[t].origin = "bootstrap"
    /\ \E t \in BeforeIdle : task[t].origin = "save"

====
